---- MODULE Spec2Model ----
(***************************************************************************)
(* Model of the auction application (app.py): the Team and Player tables   *)
(* and the request handlers add_player, sell_player, unsold_player,        *)
(* undo_player, delete_player, the listing pages and init_db.              *)
(*                                                                         *)
(* Money columns are db.Float, i.e. IEEE-754 binary64.  An amount is the   *)
(* pair <<w, f>> standing for the real number w + f / 2^24 (w any integer, *)
(* 0 <= f < 2^24); Python's None is the empty tuple <<>>.  Every amount of *)
(* the model is a multiple of 2^-24 of magnitude below 2^31, so the exact  *)
(* sum of two amounts is again such a pair and binary64 arithmetic is the  *)
(* exact sum rounded to 53 significant bits, ties to even.                 *)
(***************************************************************************)
EXTENDS Integers, Sequences, FiniteSets, TLC

VARIABLES teams, players, resp, nreq, sess, value, shown

vars == <<teams, players, resp, nreq, sess, value, shown>>

(***************************************************************************)
(* Bounds of the model.                                                    *)
(***************************************************************************)
\* rows of PLAYER_DATA that init_db loads
NumSeedPlayers == 2
\* requests served in one behaviour
MaxRequests == 3
\* largest player id the model creates and addresses: one add beyond the seed
MaxPlayers == NumSeedPlayers + 1
\* requests that can be in service at the same time
NumClients == 2

(***************************************************************************)
(* binary64 arithmetic on amounts                                          *)
(***************************************************************************)
\* number of 2^-24 units in 1
FracUnits == 16777216
\* amounts of magnitude >= 2^29 have a unit in the last place of 2^-23
Binade29 == 536870912
\* amounts of magnitude >= 2^30 have a unit in the last place of 2^-22
Binade30 == 1073741824

None == <<>>

Amt(n) == <<n, 0>>

FNeg(x) == IF x[2] = 0 THEN <<0 - x[1], 0>> ELSE <<0 - x[1] - 1, FracUnits - x[2]>>

FLess(x, y) == x[1] < y[1] \/ (x[1] = y[1] /\ x[2] < y[2])

\* the exact sum, before rounding
ExactAdd(x, y) ==
    LET f == x[2] + y[2]
    IN  IF f >= FracUnits THEN <<x[1] + y[1] + 1, f - FracUnits>>
                          ELSE <<x[1] + y[1], f>>

\* round a non-negative amount to 53 significant bits, ties to even
RoundMag(m) ==
    LET g  == IF m[1] >= Binade30 THEN 4 ELSE IF m[1] >= Binade29 THEN 2 ELSE 1
        q  == m[2] \div g
        r  == m[2] % g
        up == 2 * r > g \/ (2 * r = g /\ q % 2 = 1)
        f2 == (IF up THEN q + 1 ELSE q) * g
    IN  IF f2 = FracUnits THEN <<m[1] + 1, 0>> ELSE <<m[1], f2>>

Round(x) == IF x[1] < 0 THEN FNeg(RoundMag(FNeg(x))) ELSE RoundMag(x)

FAdd(x, y) == Round(ExactAdd(x, y))

FSub(x, y) == Round(ExactAdd(x, FNeg(y)))

(***************************************************************************)
(* Tables                                                                  *)
(***************************************************************************)
default_teams ==
    << "Chennai Super Kings (CSK)", "Mumbai Indians (MI)",
       "Royal Challengers Bengaluru (RCB)", "Kolkata Knight Riders (KKR)",
       "Sunrisers Hyderabad (SRH)", "Delhi Capitals (DC)",
       "Rajasthan Royals (RR)", "Punjab Kings (PBKS)" >>

\* Team.budget default
DefaultBudget == Amt(800000000)

\* Team(name=name)
Team(name) == [name |-> name, budget |-> DefaultBudget]

\* Player.team_id of a player that has no team (NULL)
NoTeam == 0

\* Player(name=..., role=..., set_name=..., base_price=..., credits=...):
\* status, price and team_id take their column defaults
Player(name, role, set_name, base_price, credits) ==
    [name |-> name, role |-> role, set_name |-> set_name,
     base_price |-> base_price, credits |-> credits,
     status |-> "Available", price |-> Amt(0), team_id |-> NoTeam]

\* the first rows of PLAYER_DATA: Set, Player Name, Role, Credit Points, Base Price
\* (credit points are kept as their decimal text)
PLAYER_DATA ==
    << <<"Marquee", "Virat Kohli", "Batter", "9.8", "2.00 Crore">>,
       <<"Marquee", "Jasprit Bumrah", "Bowler", "9.8", "2.00 Crore">>,
       <<"Marquee", "Rishabh Pant", "WK/Batter", "9.6", "2.00 Crore">>,
       <<"Marquee", "MS Dhoni", "WK/Batter", "9.8", "2.00 Crore">> >>

ROLE_MAP(role) ==
    CASE role = "Batter" -> "Batsman"
      [] role = "WK/Batter" -> "Wicketkeeper"
      [] role = "All-Rounder" -> "Allrounder"
      [] role = "Bowler" -> "Bowler"
      [] OTHER -> role

\* the integer primary key SQLite gives a new row: one more than the largest
\* key in the table
NextId(tbl) ==
    IF DOMAIN tbl = {} THEN 1
    ELSE (CHOOSE m \in DOMAIN tbl : \A k \in DOMAIN tbl : k <= m) + 1

\* Team.query.filter_by(name=team_name).first(): the team's id, or NoTeam
TeamByName(T, team_name) ==
    IF \E t \in DOMAIN T : T[t].name = team_name
    THEN CHOOSE t \in DOMAIN T : T[t].name = team_name
    ELSE NoTeam

\* what a handler returns: the committed tables, the flashed message
\* <<category, text>> (None when nothing is flashed) and the HTTP status
Result(T, P, flash, code) == [teams |-> T, players |-> P, flash |-> flash, code |-> code]

\* a lookup with .get() whose miss is reported by a flash and a redirect
NotFound_flashed(T, P) == Result(T, P, <<"danger", "Player not found.">>, 302)

\* get_or_404 on a missing key
NotFound(T, P) == Result(T, P, None, 404)

\* an exception escapes the handler: nothing is committed
ServerError(T, P) == Result(T, P, None, 500)

(***************************************************************************)
(* Form input                                                              *)
(***************************************************************************)
\* float(text) for the texts the model submits; these denote 0, -1,
\* 15000000, 800000001, 2^-23 and 2^-24
NumberTexts ==
    {"0", "-1", "15000000", "800000001",
     "1.1920928955078125e-07", "5.960464477539063e-08"}

\* float(text) raises ValueError when text is not in NumberTexts
float(text) ==
    CASE text = "0" -> Amt(0)
      [] text = "-1" -> Amt(-1)
      [] text = "15000000" -> Amt(15000000)
      [] text = "800000001" -> Amt(800000001)
      [] text = "1.1920928955078125e-07" -> <<0, 2>>
      [] text = "5.960464477539063e-08" -> <<0, 1>>

(***************************************************************************)
(* The format_inr template filter.  Texts are strings; the amounts it is   *)
(* given are amounts of the model (multiples of 2^-24 below 2^31 in        *)
(* magnitude) or None.                                                     *)
(***************************************************************************)
\* one crore and one lakh, the thresholds of format_inr
Crore == 10000000

Lakh == 100000

\* the decimal digit d as a text
Digit(d) == SubSeq("0123456789", d + 1, d + 1)

\* str(n) of a natural number n
RECURSIVE str_nat(_)
str_nat(n) == IF n < 10 THEN Digit(n) ELSE str_nat(n \div 10) \o Digit(n % 10)

\* the first significant decimal digit of n / 2^24, for 0 < n
RECURSIVE LeadDigit(_)
LeadDigit(n) == IF n >= FracUnits THEN n \div FracUnits ELSE LeadDigit(10 * n)

\* str(value).split(".")[0].  repr of a float is sign, integer part, "." and
\* the fraction digits when 1e-4 <= |value| < 1e16 or value = 0, and
\* d.ddd...e-XX below 1e-4; an amount of the model below 1e-4 is a dyadic
\* fraction with more than one significant digit, so its repr has a "." after
\* the first significant digit.  Every repr here contains ".", so the
\* str(int(value)) of the other branch is never used.
BeforePoint(x) ==
    LET neg  == x[1] < 0
        m    == IF neg THEN FNeg(x) ELSE x
        sign == IF neg THEN "-" ELSE ""
    IN  IF m[1] = 0 /\ m[2] # 0 /\ m[2] <= (FracUnits - 1) \div 10000
        THEN sign \o Digit(LeadDigit(m[2]))
        ELSE sign \o str_nat(m[1])

\* the Python slice s[a:b] for negative a and b
Slice(s, a, b) ==
    LET lo == IF Len(s) + a < 0 THEN 0 ELSE Len(s) + a
        hi == IF Len(s) + b < 0 THEN 0 ELSE Len(s) + b
    IN  SubSeq(s, lo + 1, hi)

\* ",".join of [s[x-2:x] for x in range(from, -len(s), -2)][::-1], with the
\* "," that joins it to what follows
RECURSIVE Groups(_, _)
Groups(s, from) ==
    IF from <= 0 - Len(s) THEN ""
    ELSE Groups(s, from - 2) \o Slice(s, from - 2, from) \o ","

\* ",".join([s[x-2:x] for x in range(-3, -len(s), -2)][::-1] + [s[-3:]])
Grouped(s) ==
    Groups(s, -3) \o SubSeq(s, (IF Len(s) < 3 THEN 0 ELSE Len(s) - 3) + 1, Len(s))

\* 2^k modulo 25
RECURSIVE Pow2Mod25(_)
Pow2Mod25(k) == IF k = 0 THEN 1 ELSE (2 * Pow2Mod25(k - 1)) % 25

\* the binary exponent of m / 25: the largest e with 25 * 2^e <= m, found
\* from e and p = 25 * 2^e upwards (25 <= m)
RECURSIVE Exponent(_, _, _)
Exponent(m, e, p) == IF 2 * p <= m THEN Exponent(m, e + 1, 2 * p) ELSE e

\* value / unit lies exactly between h and h + 1 hundredths, so it is
\* (2h + 1) / 200; the binary64 quotient is m / 25 (m = 2h + 1) rounded to 53
\* significant bits and scaled by a power of two.  With R the remainder of
\* m * 2^(52 - e) modulo 25, the quotient is below the exact value when
\* 0 < R <= 12 and above it when R >= 13, and "{0:.2f}" rounds it that way;
\* when R = 0 the quotient is exact and the tie goes to the even hundredth.
TieRoundsUp(h) ==
    LET m == 2 * h + 1
        R == ((m % 25) * Pow2Mod25(52 - Exponent(m, 0, 25))) % 25
    IN  IF R = 0 THEN h % 2 = 1 ELSE R >= 13

\* "{0:.2f}".format(value / unit) for value >= unit / 100.  Off a tie the
\* binary64 quotient is on the same side of the tie as the exact quotient
\* (its distance from the tie exceeds the rounding error of the division).
TwoDecimals(x, unit) ==
    LET u   == unit \div 100
        h   == x[1] \div u
        rem == x[1] % u
        up  == \/ 2 * rem > u
               \/ 2 * rem = u /\ (x[2] > 0 \/ TieRoundsUp(h))
        c   == IF up THEN h + 1 ELSE h
    IN  str_nat(c \div 100) \o "." \o Digit((c % 100) \div 10) \o Digit(c % 10)

\* format_inr without the lakh band: amounts below one crore are grouped
format_inr_groups_lakh(x) ==
    IF x = None THEN x
    ELSE IF ~ FLess(x, Amt(Crore))
    THEN "INR " \o TwoDecimals(x, Crore) \o " Cr"
    ELSE "INR " \o Grouped(BeforePoint(x))

\* the template filter format_inr(value); float(None) raises TypeError and
\* the value is returned as it is
format_inr(x) ==
    IF x = None THEN x
    ELSE IF ~ FLess(x, Amt(Crore))
    THEN "INR " \o TwoDecimals(x, Crore) \o " Cr"
    ELSE IF ~ FLess(x, Amt(Lakh))
    THEN "INR " \o TwoDecimals(x, Lakh) \o " L"
    ELSE "INR " \o Grouped(BeforePoint(x))

(***************************************************************************)
(* Handlers: each maps the committed tables and the request's input to     *)
(* the tables it commits and its response.                                 *)
(***************************************************************************)
\* sell_player that forgets the debit (team.budget -= price)
sell_player_no_debit(T, P, id, team_name, price_text) ==
    IF id \notin DOMAIN P THEN NotFound(T, P)
    ELSE IF P[id].status # "Available"
    THEN Result(T, P, <<"danger", "Player already processed.">>, 302)
    ELSE IF price_text \notin NumberTexts THEN ServerError(T, P)
    ELSE LET price == float(price_text)
             team  == TeamByName(T, team_name)
         IN  IF team = NoTeam
             THEN Result(T, P, <<"danger", "Invalid team selected.">>, 302)
             ELSE IF FLess(T[team].budget, price)
             THEN Result(T, P, <<"danger", "Not enough budget.">>, 302)
             ELSE Result(T,
                         [P EXCEPT ![id].status = "Sold",
                                   ![id].team_id = team,
                                   ![id].price = price],
                         <<"success", "sold">>, 302)

\* sell_player that refuses a price equal to the budget (team.budget <= price)
sell_player_strict(T, P, id, team_name, price_text) ==
    IF id \notin DOMAIN P THEN NotFound(T, P)
    ELSE IF P[id].status # "Available"
    THEN Result(T, P, <<"danger", "Player already processed.">>, 302)
    ELSE IF price_text \notin NumberTexts THEN ServerError(T, P)
    ELSE LET price == float(price_text)
             team  == TeamByName(T, team_name)
         IN  IF team = NoTeam
             THEN Result(T, P, <<"danger", "Invalid team selected.">>, 302)
             ELSE IF ~ FLess(price, T[team].budget)
             THEN Result(T, P, <<"danger", "Not enough budget.">>, 302)
             ELSE Result([T EXCEPT ![team].budget = FSub(@, price)],
                         [P EXCEPT ![id].status = "Sold",
                                   ![id].team_id = team,
                                   ![id].price = price],
                         <<"success", "sold">>, 302)

\* sell_player that looks the team up before it checks the player's status
sell_player_team_first(T, P, id, team_name, price_text) ==
    IF id \notin DOMAIN P THEN NotFound(T, P)
    ELSE IF price_text \notin NumberTexts THEN ServerError(T, P)
    ELSE LET price == float(price_text)
             team  == TeamByName(T, team_name)
         IN  IF team = NoTeam
             THEN Result(T, P, <<"danger", "Invalid team selected.">>, 302)
             ELSE IF P[id].status # "Available"
             THEN Result(T, P, <<"danger", "Player already processed.">>, 302)
             ELSE IF FLess(T[team].budget, price)
             THEN Result(T, P, <<"danger", "Not enough budget.">>, 302)
             ELSE Result([T EXCEPT ![team].budget = FSub(@, price)],
                         [P EXCEPT ![id].status = "Sold",
                                   ![id].team_id = team,
                                   ![id].price = price],
                         <<"success", "sold">>, 302)

\* sell_player that forgets to record the price (player.price = price)
sell_player_keeps_price(T, P, id, team_name, price_text) ==
    IF id \notin DOMAIN P THEN NotFound(T, P)
    ELSE IF P[id].status # "Available"
    THEN Result(T, P, <<"danger", "Player already processed.">>, 302)
    ELSE IF price_text \notin NumberTexts THEN ServerError(T, P)
    ELSE LET price == float(price_text)
             team  == TeamByName(T, team_name)
         IN  IF team = NoTeam
             THEN Result(T, P, <<"danger", "Invalid team selected.">>, 302)
             ELSE IF FLess(T[team].budget, price)
             THEN Result(T, P, <<"danger", "Not enough budget.">>, 302)
             ELSE Result([T EXCEPT ![team].budget = FSub(@, price)],
                         [P EXCEPT ![id].status = "Sold",
                                   ![id].team_id = team],
                         <<"success", "sold">>, 302)

\* sell_player that only refuses a player who is already Sold
sell_player_resells_unsold(T, P, id, team_name, price_text) ==
    IF id \notin DOMAIN P THEN NotFound(T, P)
    ELSE IF P[id].status = "Sold"
    THEN Result(T, P, <<"danger", "Player already processed.">>, 302)
    ELSE IF price_text \notin NumberTexts THEN ServerError(T, P)
    ELSE LET price == float(price_text)
             team  == TeamByName(T, team_name)
         IN  IF team = NoTeam
             THEN Result(T, P, <<"danger", "Invalid team selected.">>, 302)
             ELSE IF FLess(T[team].budget, price)
             THEN Result(T, P, <<"danger", "Not enough budget.">>, 302)
             ELSE Result([T EXCEPT ![team].budget = FSub(@, price)],
                         [P EXCEPT ![id].status = "Sold",
                                   ![id].team_id = team,
                                   ![id].price = price],
                         <<"success", "sold">>, 302)

\* sell_player that marks the player Sold before it checks the budget and
\* commits on the rejection path
sell_player_partial(T, P, id, team_name, price_text) ==
    IF id \notin DOMAIN P THEN NotFound(T, P)
    ELSE IF P[id].status # "Available"
    THEN Result(T, P, <<"danger", "Player already processed.">>, 302)
    ELSE IF price_text \notin NumberTexts THEN ServerError(T, P)
    ELSE LET price == float(price_text)
             team  == TeamByName(T, team_name)
         IN  IF team = NoTeam
             THEN Result(T, P, <<"danger", "Invalid team selected.">>, 302)
             ELSE IF FLess(T[team].budget, price)
             THEN Result(T, [P EXCEPT ![id].status = "Sold", ![id].team_id = team],
                         <<"danger", "Not enough budget.">>, 302)
             ELSE Result([T EXCEPT ![team].budget = FSub(@, price)],
                         [P EXCEPT ![id].status = "Sold",
                                   ![id].team_id = team,
                                   ![id].price = price],
                         <<"success", "sold">>, 302)

\* POST /sell/<id> with form fields team and price
sell_player(T, P, id, team_name, price_text) ==
    IF id \notin DOMAIN P THEN NotFound(T, P)
    ELSE IF P[id].status # "Available"
    THEN Result(T, P, <<"danger", "Player already processed.">>, 302)
    ELSE IF price_text \notin NumberTexts THEN ServerError(T, P)
    ELSE LET price == float(price_text)
             team  == TeamByName(T, team_name)
         IN  IF team = NoTeam
             THEN Result(T, P, <<"danger", "Invalid team selected.">>, 302)
             ELSE IF FLess(T[team].budget, price)
             THEN Result(T, P, <<"danger", "Not enough budget.">>, 302)
             ELSE Result([T EXCEPT ![team].budget = FSub(@, price)],
                         [P EXCEPT ![id].status = "Sold",
                                   ![id].team_id = team,
                                   ![id].price = price],
                         <<"success", "sold">>, 302)

\* unsold_player that only takes an Available player
unsold_player_guarded(T, P, id) ==
    IF id \notin DOMAIN P THEN NotFound(T, P)
    ELSE IF P[id].status # "Available"
    THEN Result(T, P, <<"danger", "Player already processed.">>, 302)
    ELSE Result(T, [P EXCEPT ![id].status = "Unsold"],
                <<"warning", "marked as Unsold">>, 302)

\* unsold_player that gives the price of a Sold player back to its team
unsold_player_refunds(T, P, id) ==
    IF id \notin DOMAIN P THEN NotFound(T, P)
    ELSE IF P[id].status = "Sold" /\ P[id].team_id \in DOMAIN T
    THEN Result([T EXCEPT ![P[id].team_id].budget = FAdd(@, P[id].price)],
                [P EXCEPT ![id].status = "Unsold"],
                <<"warning", "marked as Unsold">>, 302)
    ELSE Result(T, [P EXCEPT ![id].status = "Unsold"],
                <<"warning", "marked as Unsold">>, 302)

\* GET /unsold/<id>
unsold_player(T, P, id) ==
    IF id \notin DOMAIN P THEN NotFound(T, P)
    ELSE Result(T, [P EXCEPT ![id].status = "Unsold"],
                <<"warning", "marked as Unsold">>, 302)

\* the reset at the end of undo_player
ResetPlayer(P, id) ==
    [P EXCEPT ![id].status = "Available", ![id].team_id = NoTeam, ![id].price = None]

\* undo_player that gives up, with nothing reset, when the owning team's row
\* is not found
undo_player_needs_team(T, P, id) ==
    IF id \notin DOMAIN P THEN NotFound(T, P)
    ELSE IF P[id].status = "Sold" /\ P[id].team_id # NoTeam
    THEN IF P[id].team_id \in DOMAIN T
         THEN IF P[id].price = None THEN ServerError(T, P)
              ELSE Result([T EXCEPT ![P[id].team_id].budget = FAdd(@, P[id].price)],
                          ResetPlayer(P, id), <<"info", "Undid sale">>, 302)
         ELSE Result(T, P, <<"danger", "Invalid team selected.">>, 302)
    ELSE IF P[id].status = "Unsold"
    THEN Result(T, ResetPlayer(P, id), <<"info", "Undid 'Unsold' status">>, 302)
    ELSE Result(T, P, <<"warning", "Player is already Available.">>, 302)

\* undo_player whose undo of an Unsold player that still has a team puts the
\* player back to Sold
undo_player_restores_sale(T, P, id) ==
    IF id \notin DOMAIN P THEN NotFound(T, P)
    ELSE IF P[id].status = "Sold" /\ P[id].team_id # NoTeam
    THEN IF P[id].team_id \in DOMAIN T
         THEN IF P[id].price = None THEN ServerError(T, P)
              ELSE Result([T EXCEPT ![P[id].team_id].budget = FAdd(@, P[id].price)],
                          ResetPlayer(P, id), <<"info", "Undid sale">>, 302)
         ELSE Result(T, ResetPlayer(P, id), None, 302)
    ELSE IF P[id].status = "Unsold"
    THEN IF P[id].team_id # NoTeam
         THEN Result(T, [P EXCEPT ![id].status = "Sold"],
                     <<"info", "Undid 'Unsold' status">>, 302)
         ELSE Result(T, ResetPlayer(P, id), <<"info", "Undid 'Unsold' status">>, 302)
    ELSE Result(T, P, <<"warning", "Player is already Available.">>, 302)

\* undo_player whose reset covers every player of the refunded team
undo_player_resets_team(T, P, id) ==
    IF id \notin DOMAIN P THEN NotFound(T, P)
    ELSE IF P[id].status = "Sold" /\ P[id].team_id # NoTeam
    THEN IF P[id].team_id \in DOMAIN T
         THEN IF P[id].price = None THEN ServerError(T, P)
              ELSE Result([T EXCEPT ![P[id].team_id].budget = FAdd(@, P[id].price)],
                          [k \in DOMAIN P |->
                              IF P[k].team_id = P[id].team_id
                              THEN ResetPlayer(P, k)[k] ELSE P[k]],
                          <<"info", "Undid sale">>, 302)
         ELSE Result(T, ResetPlayer(P, id), None, 302)
    ELSE IF P[id].status = "Unsold"
    THEN Result(T, ResetPlayer(P, id), <<"info", "Undid 'Unsold' status">>, 302)
    ELSE Result(T, P, <<"warning", "Player is already Available.">>, 302)

\* undo_player that refunds whenever the player still has a team, Sold or not
undo_player_refunds_by_team(T, P, id) ==
    IF id \notin DOMAIN P THEN NotFound(T, P)
    ELSE IF P[id].status # "Available" /\ P[id].team_id # NoTeam
    THEN IF P[id].team_id \in DOMAIN T
         THEN IF P[id].price = None THEN ServerError(T, P)
              ELSE Result([T EXCEPT ![P[id].team_id].budget = FAdd(@, P[id].price)],
                          ResetPlayer(P, id), <<"info", "Undid sale">>, 302)
         ELSE Result(T, ResetPlayer(P, id), None, 302)
    ELSE IF P[id].status = "Unsold"
    THEN Result(T, ResetPlayer(P, id), <<"info", "Undid 'Unsold' status">>, 302)
    ELSE Result(T, P, <<"warning", "Player is already Available.">>, 302)

\* undo_player without the early return of the Available branch: the reset
\* and commit run for every status
undo_player_no_return(T, P, id) ==
    IF id \notin DOMAIN P THEN NotFound(T, P)
    ELSE IF P[id].status = "Sold" /\ P[id].team_id # NoTeam
    THEN IF P[id].team_id \in DOMAIN T
         THEN IF P[id].price = None THEN ServerError(T, P)
              ELSE Result([T EXCEPT ![P[id].team_id].budget = FAdd(@, P[id].price)],
                          ResetPlayer(P, id), <<"info", "Undid sale">>, 302)
         ELSE Result(T, ResetPlayer(P, id), None, 302)
    ELSE IF P[id].status = "Unsold"
    THEN Result(T, ResetPlayer(P, id), <<"info", "Undid 'Unsold' status">>, 302)
    ELSE Result(T, ResetPlayer(P, id), <<"warning", "Player is already Available.">>, 302)

\* POST /undo/<id>
undo_player(T, P, id) ==
    IF id \notin DOMAIN P THEN NotFound(T, P)
    ELSE IF P[id].status = "Sold" /\ P[id].team_id # NoTeam
    THEN IF P[id].team_id \in DOMAIN T
         THEN IF P[id].price = None THEN ServerError(T, P)
              ELSE Result([T EXCEPT ![P[id].team_id].budget = FAdd(@, P[id].price)],
                          ResetPlayer(P, id), <<"info", "Undid sale">>, 302)
         ELSE Result(T, ResetPlayer(P, id), None, 302)
    ELSE IF P[id].status = "Unsold"
    THEN Result(T, ResetPlayer(P, id), <<"info", "Undid 'Unsold' status">>, 302)
    ELSE Result(T, P, <<"warning", "Player is already Available.">>, 302)

\* db.session.delete(player)
DeleteRow(P, id) == [k \in DOMAIN P \ {id} |-> P[k]]

\* delete_player that removes the row without refunding the owning team
delete_player_no_refund(T, P, id) ==
    IF id \notin DOMAIN P THEN NotFound(T, P)
    ELSE Result(T, DeleteRow(P, id), <<"success", "removed">>, 302)

\* POST /delete/<id>
delete_player(T, P, id) ==
    IF id \notin DOMAIN P THEN NotFound(T, P)
    ELSE IF P[id].status = "Sold" /\ P[id].team_id # NoTeam /\ P[id].team_id \in DOMAIN T
    THEN IF P[id].price = None THEN ServerError(T, P)
         ELSE Result([T EXCEPT ![P[id].team_id].budget = FAdd(@, P[id].price)],
                     DeleteRow(P, id), <<"success", "removed, refunded">>, 302)
    ELSE Result(T, DeleteRow(P, id), <<"success", "removed">>, 302)

\* request.form.get("credits", 0) when the form has no credits field
Absent == "<absent>"

\* credit texts float() accepts, with the repr of the float they denote
CreditTexts == {"7", "9.8", "9.6"}

CreditPoints(text) ==
    CASE text = "7" -> "7.0"
      [] text = "9.8" -> "9.8"
      [] text = "9.6" -> "9.6"
      [] text = Absent -> "0.0"

\* db.session.add(row)
InsertRow(tbl, row) == [k \in DOMAIN tbl \cup {NextId(tbl)} |->
                           IF k \in DOMAIN tbl THEN tbl[k] ELSE row]

\* add_player that adds the new row to the session twice
add_player_twice(T, P, method, name, role, set_name, base_price, credits_text) ==
    IF method # "POST" THEN Result(T, P, None, 200)
    ELSE IF credits_text \notin CreditTexts \cup {Absent} THEN ServerError(T, P)
    ELSE LET row == Player(name, role, set_name, base_price, CreditPoints(credits_text))
         IN  Result(T, InsertRow(InsertRow(P, row), row),
                    <<"success", "added successfully!">>, 302)

\* GET or POST /add
add_player(T, P, method, name, role, set_name, base_price, credits_text) ==
    IF method # "POST" THEN Result(T, P, None, 200)
    ELSE IF credits_text \notin CreditTexts \cup {Absent} THEN ServerError(T, P)
    ELSE Result(T,
                InsertRow(P, Player(name, role, set_name, base_price,
                                    CreditPoints(credits_text))),
                <<"success", "added successfully!">>, 302)

\* GET /, GET /teams, GET /players
index(T, P) == Result(T, P, None, 200)

\* the seeding loops of init_db
RECURSIVE SeedTeams(_, _)
SeedTeams(T, names) ==
    IF names = <<>> THEN T
    ELSE SeedTeams(InsertRow(T, Team(Head(names))), Tail(names))

RECURSIVE SeedPlayers(_, _)
SeedPlayers(P, rows) ==
    IF rows = <<>> THEN P
    ELSE LET row == Head(rows)
         IN  SeedPlayers(InsertRow(P, Player(row[2], ROLE_MAP(row[3]), row[1], row[5],
                                             CreditPoints(row[4]))),
                         Tail(rows))

\* init_db that loads PLAYER_DATA on every run
init_db_reseeds(T, P) ==
    LET T1 == IF DOMAIN T = {} THEN SeedTeams(T, default_teams) ELSE T
        P1 == SeedPlayers(P, SubSeq(PLAYER_DATA, 1, NumSeedPlayers))
    IN  Result(T1, P1, None, 0)

init_db(T, P) ==
    LET T1 == IF DOMAIN T = {} THEN SeedTeams(T, default_teams) ELSE T
        P1 == IF DOMAIN P = {} THEN SeedPlayers(P, SubSeq(PLAYER_DATA, 1, NumSeedPlayers))
              ELSE P
    IN  Result(T1, P1, None, 0)

(***************************************************************************)
(* The requests the model issues                                           *)
(***************************************************************************)
EmptyTable == [k \in {} |-> 0]

Clients == 1 .. NumClients

\* a session with no request in service; otherwise the request (op, id,
\* team_name, price), the place it has reached (pc) and the rows it has loaded:
\* the player's status, team_id and price, and the team's id and budget
Idle ==
    [pc |-> "idle", op |-> "", id |-> 0, team_name |-> "", price |-> None,
     status |-> "", team_id |-> NoTeam, old_price |-> None,
     team |-> NoTeam, budget |-> None]

PlayerIds == 1 .. MaxPlayers

FormTeams == {default_teams[1], default_teams[2], "No Such Team"}

PriceTexts == NumberTexts \cup {"abc"}

CreditFields == {"7", "abc", Absent}

\* one request is served: its result is committed and its response sent
Serve(res) ==
    /\ nreq < MaxRequests
    /\ teams' = res.teams
    /\ players' = res.players
    /\ resp' = [flash |-> res.flash, code |-> res.code]
    /\ nreq' = nreq + 1
    /\ UNCHANGED <<sess, value, shown>>

\* the module is loaded: init_db() runs on an empty store
Init ==
    /\ teams = init_db(EmptyTable, EmptyTable).teams
    /\ players = init_db(EmptyTable, EmptyTable).players
    /\ resp = [flash |-> None, code |-> 0]
    /\ nreq = 0
    /\ sess = [c \in Clients |-> Idle]
    /\ value = None
    /\ shown = None

Sell ==
    \E id \in PlayerIds, team \in FormTeams, price \in PriceTexts :
        Serve(sell_player(teams, players, id, team, price))

Unsold == \E id \in PlayerIds : Serve(unsold_player(teams, players, id))

Undo == \E id \in PlayerIds : Serve(undo_player(teams, players, id))

Delete == \E id \in PlayerIds : Serve(delete_player(teams, players, id))

Add ==
    \E method \in {"GET", "POST"}, credits \in CreditFields :
        /\ NextId(players) <= MaxPlayers
        /\ Serve(add_player(teams, players, method, "New Player", "Bowler",
                            "Uncapped Bowler", "50 Lakhs", credits))

View == Serve(index(teams, players))

\* the module is loaded again (a restart of the process)
InitDb == Serve(init_db(teams, players))

Next == Sell \/ Unsold \/ Undo \/ Delete \/ Add \/ View \/ InitDb

Spec == Init /\ [][Next]_vars

(***************************************************************************)
(* Requests served concurrently.  Each request runs in its own session: a  *)
(* query reads the committed tables into the session, assignments change   *)
(* only the session's objects, and db.session.commit() writes the changed  *)
(* attributes of those objects in one transaction.                         *)
(***************************************************************************)
\* what one step of a handler yields: the committed tables, the session, and,
\* when the request is finished (done), its response
Outcome(T, P, s, done, flash, code) ==
    [teams |-> T, players |-> P, s |-> s, done |-> done, flash |-> flash, code |-> code]

Finished(T, P, flash, code) == Outcome(T, P, Idle, TRUE, flash, code)

Continues(T, P, s) == Outcome(T, P, s, FALSE, None, 0)

\* Player.query.get_or_404(id) on an existing row: the session's copy of it
LoadPlayer(P, op, id) ==
    [Idle EXCEPT !.op = op, !.id = id, !.status = P[id].status,
                 !.team_id = P[id].team_id, !.old_price = P[id].price]

\* the UPDATE of a player row at commit: only the attributes whose value the
\* handler changed are written
UpdatePlayer(P, s, status, team_id, price) ==
    [P EXCEPT ![s.id].status = IF status # s.status THEN status ELSE @,
              ![s.id].team_id = IF team_id # s.team_id THEN team_id ELSE @,
              ![s.id].price = IF price # s.old_price THEN price ELSE @]

\* the UPDATE of a team row at commit: the budget the session computed from
\* the budget it loaded, written only when it differs from the loaded one
UpdateTeam(T, s, budget) ==
    IF budget # s.budget THEN [T EXCEPT ![s.team].budget = budget] ELSE T

\* sell_player up to the team query: get_or_404, the status check and the
\* reads of the form
sell_load_player(T, P, id, team_name, price_text) ==
    IF id \notin DOMAIN P THEN Finished(T, P, None, 404)
    ELSE IF P[id].status # "Available"
    THEN Finished(T, P, <<"danger", "Player already processed.">>, 302)
    ELSE IF price_text \notin NumberTexts THEN Finished(T, P, None, 500)
    ELSE Continues(T, P, [LoadPlayer(P, "sell", id) EXCEPT
                             !.pc = "team", !.team_name = team_name,
                             !.price = float(price_text)])

\* sell_player from the team query to the budget check
sell_load_team(T, P, s) ==
    LET team == TeamByName(T, s.team_name)
    IN  IF team = NoTeam
        THEN Finished(T, P, <<"danger", "Invalid team selected.">>, 302)
        ELSE IF FLess(T[team].budget, s.price)
        THEN Finished(T, P, <<"danger", "Not enough budget.">>, 302)
        ELSE Continues(T, P, [s EXCEPT !.pc = "commit", !.team = team,
                                       !.budget = T[team].budget])

\* sell_player that commits the debit and then, in a second transaction, the
\* player (budget None marks the session whose debit is committed)
sell_commit_two_commits(T, P, s) ==
    IF s.budget # None
    THEN Continues(UpdateTeam(T, s, FSub(s.budget, s.price)), P,
                   [s EXCEPT !.budget = None])
    ELSE IF s.id \notin DOMAIN P THEN Finished(T, P, None, 500)
    ELSE Finished(T, UpdatePlayer(P, s, "Sold", s.team, s.price),
                  <<"success", "sold">>, 302)

\* sell_player whose commit is refused when the player's row is no longer
\* Available (an UPDATE ... WHERE status = 'Available')
sell_commit_checks_status(T, P, s) ==
    IF s.id \notin DOMAIN P THEN Finished(T, P, None, 500)
    ELSE IF P[s.id].status # "Available"
    THEN Finished(T, P, <<"danger", "Player already processed.">>, 302)
    ELSE Finished(UpdateTeam(T, s, FSub(s.budget, s.price)),
                  UpdatePlayer(P, s, "Sold", s.team, s.price),
                  <<"success", "sold">>, 302)

\* sell_player whose commit debits the committed budget
\* (UPDATE team SET budget = budget - :price)
sell_commit_relative(T, P, s) ==
    IF s.id \notin DOMAIN P THEN Finished(T, P, None, 500)
    ELSE Finished([T EXCEPT ![s.team].budget = FSub(@, s.price)],
                  UpdatePlayer(P, s, "Sold", s.team, s.price),
                  <<"success", "sold">>, 302)

\* sell_player from the assignments to the commit; the UPDATE of a player row
\* that has been deleted meanwhile raises and the transaction is rolled back
sell_commit(T, P, s) ==
    IF s.id \notin DOMAIN P THEN Finished(T, P, None, 500)
    ELSE Finished(UpdateTeam(T, s, FSub(s.budget, s.price)),
                  UpdatePlayer(P, s, "Sold", s.team, s.price),
                  <<"success", "sold">>, 302)

\* unsold_player up to the assignment
unsold_load_player(T, P, id) ==
    IF id \notin DOMAIN P THEN Finished(T, P, None, 404)
    ELSE Continues(T, P, [LoadPlayer(P, "unsold", id) EXCEPT !.pc = "commit"])

\* unsold_player: the assignment and the commit
unsold_commit(T, P, s) ==
    IF s.status = "Unsold"
    THEN Finished(T, P, <<"warning", "marked as Unsold">>, 302)
    ELSE IF s.id \notin DOMAIN P THEN Finished(T, P, None, 500)
    ELSE Finished(T, UpdatePlayer(P, s, "Unsold", s.team_id, s.old_price),
                  <<"warning", "marked as Unsold">>, 302)

\* undo_player up to the team query
undo_load_player(T, P, id) ==
    IF id \notin DOMAIN P THEN Finished(T, P, None, 404)
    ELSE IF P[id].status = "Sold" /\ P[id].team_id # NoTeam
    THEN Continues(T, P, [LoadPlayer(P, "undo", id) EXCEPT !.pc = "team"])
    ELSE IF P[id].status = "Unsold"
    THEN Continues(T, P, [LoadPlayer(P, "undo", id) EXCEPT !.pc = "commit"])
    ELSE Finished(T, P, <<"warning", "Player is already Available.">>, 302)

\* Team.query.get(player.team_id) of undo_player and delete_player
load_team(T, P, s) ==
    IF s.team_id \in DOMAIN T
    THEN Continues(T, P, [s EXCEPT !.pc = "commit", !.team = s.team_id,
                                   !.budget = T[s.team_id].budget])
    ELSE Continues(T, P, [s EXCEPT !.pc = "commit"])

\* undo_player: the refund, the reset and the commit
undo_commit(T, P, s) ==
    IF s.id \notin DOMAIN P THEN Finished(T, P, None, 500)
    ELSE IF s.team # NoTeam
    THEN Finished(UpdateTeam(T, s, FAdd(s.budget, s.old_price)),
                  UpdatePlayer(P, s, "Available", NoTeam, None),
                  <<"info", "Undid sale">>, 302)
    ELSE Finished(T, UpdatePlayer(P, s, "Available", NoTeam, None),
                  IF s.status = "Unsold" THEN <<"info", "Undid 'Unsold' status">>
                                         ELSE None, 302)

\* delete_player up to the team query
delete_load_player(T, P, id) ==
    IF id \notin DOMAIN P THEN Finished(T, P, None, 404)
    ELSE IF P[id].status = "Sold" /\ P[id].team_id # NoTeam
    THEN Continues(T, P, [LoadPlayer(P, "delete", id) EXCEPT !.pc = "team"])
    ELSE Continues(T, P, [LoadPlayer(P, "delete", id) EXCEPT !.pc = "commit"])

\* delete_player: the refund, the DELETE and the commit; a DELETE that finds
\* no row only warns
delete_commit(T, P, s) ==
    IF s.team # NoTeam
    THEN Finished(UpdateTeam(T, s, FAdd(s.budget, s.old_price)), DeleteRow(P, s.id),
                  <<"success", "removed, refunded">>, 302)
    ELSE Finished(T, DeleteRow(P, s.id), <<"success", "removed">>, 302)

\* the requests the concurrent model issues
ConcTeams == {default_teams[1], default_teams[2]}

ConcPrices == {"15000000"}

\* a step of client c is taken: its writes are committed, and its response is
\* sent when the request is finished
Apply(c, o) ==
    /\ teams' = o.teams
    /\ players' = o.players
    /\ sess' = [sess EXCEPT ![c] = o.s]
    /\ resp' = IF o.done THEN [flash |-> o.flash, code |-> o.code] ELSE resp
    /\ UNCHANGED <<value, shown>>

\* a request arrives at an idle client and runs to its first query
Begin(c, o) ==
    /\ sess[c].pc = "idle"
    /\ nreq < MaxRequests
    /\ nreq' = nreq + 1
    /\ Apply(c, o)

\* a request in service takes its next step
Step(c, op, pc, o) ==
    /\ sess[c].op = op
    /\ sess[c].pc = pc
    /\ UNCHANGED nreq
    /\ Apply(c, o)

SellBegin(c) ==
    \E id \in DOMAIN players, team_name \in ConcTeams, price_text \in ConcPrices :
        Begin(c, sell_load_player(teams, players, id, team_name, price_text))

SellTeam(c) == Step(c, "sell", "team", sell_load_team(teams, players, sess[c]))

SellCommit(c) == Step(c, "sell", "commit", sell_commit(teams, players, sess[c]))

UnsoldBegin(c) ==
    \E id \in DOMAIN players : Begin(c, unsold_load_player(teams, players, id))

UnsoldCommit(c) == Step(c, "unsold", "commit", unsold_commit(teams, players, sess[c]))

UndoBegin(c) ==
    \E id \in DOMAIN players : Begin(c, undo_load_player(teams, players, id))

UndoTeam(c) == Step(c, "undo", "team", load_team(teams, players, sess[c]))

UndoCommit(c) == Step(c, "undo", "commit", undo_commit(teams, players, sess[c]))

DeleteBegin(c) ==
    \E id \in DOMAIN players : Begin(c, delete_load_player(teams, players, id))

DeleteTeam(c) == Step(c, "delete", "team", load_team(teams, players, sess[c]))

DeleteCommit(c) == Step(c, "delete", "commit", delete_commit(teams, players, sess[c]))

NextConc ==
    \E c \in Clients :
        \/ SellBegin(c) \/ SellTeam(c) \/ SellCommit(c)
        \/ UnsoldBegin(c) \/ UnsoldCommit(c)
        \/ UndoBegin(c) \/ UndoTeam(c) \/ UndoCommit(c)
        \/ DeleteBegin(c) \/ DeleteTeam(c) \/ DeleteCommit(c)

SpecConc == Init /\ [][NextConc]_vars

(***************************************************************************)
(* The pages render amounts through format_inr.                            *)
(***************************************************************************)
\* whole parts and 2^-24 fractions of the amounts rendered
FormatWholes ==
    {-1234567, -100000, -12345, -1234, -1000, -999, -123, -12, -1, 0, 1, 12,
     123, 999, 1000, 1234, 5000, 12345, 99999, 100000, 100500, 123456, 150000,
     999999, 1234567, 9999999, 10000000, 10050000, 12350000, 15000000,
     25000000, 785000000, 800000000, 800000001}

FormatFracs == {0, 1, 2, 1677, 1678, 8388608, 16777215}

\* the binary64 amounts among them, and None
FormatValues ==
    {x \in FormatWholes \X FormatFracs : Round(x) = x} \cup {None}

\* nothing rendered yet
NotShown == "<not shown>"

InitFormat ==
    /\ teams = init_db(EmptyTable, EmptyTable).teams
    /\ players = init_db(EmptyTable, EmptyTable).players
    /\ resp = [flash |-> None, code |-> 0]
    /\ nreq = 0
    /\ sess = [c \in Clients |-> Idle]
    /\ value \in FormatValues
    /\ shown = NotShown

\* {{ value | format_inr }}
Render ==
    /\ shown = NotShown
    /\ shown' = format_inr(value)
    /\ UNCHANGED <<teams, players, resp, nreq, sess, value>>

NextFormat == Render

SpecFormat == InitFormat /\ [][NextFormat]_vars

(***************************************************************************)
(* Properties                                                              *)
(***************************************************************************)
\* x >= y on amounts
FGeq(x, y) == x = y \/ FLess(y, x)

Sold == <<"success", "sold">>
AlreadyProcessed == <<"danger", "Player already processed.">>
InvalidTeam == <<"danger", "Invalid team selected.">>
NotEnoughBudget == <<"danger", "Not enough budget.">>

\* C1: a sell of an existing Available player to an existing team whose
\* budget is at least the price leaves that team's budget at its previous
\* value minus the price (the float subtraction of the budget column) and the
\* player Sold, owned by that team, with that price.
C1_SellEffect ==
    \A id \in DOMAIN players, team_name \in FormTeams, price_text \in NumberTexts :
        LET team == TeamByName(teams, team_name)
            r    == sell_player(teams, players, id, team_name, price_text)
        IN  (/\ players[id].status = "Available"
             /\ team # NoTeam
             /\ FGeq(teams[team].budget, float(price_text)))
            => /\ r.teams[team].budget = FSub(teams[team].budget, float(price_text))
               /\ r.players[id].status = "Sold"
               /\ r.players[id].team_id = team
               /\ r.players[id].price = float(price_text)

\* a sale for 15,000,000 has just been committed: the buyer holds 785,000,000
C1_Witness ==
    /\ resp.flash = Sold
    /\ \E id \in DOMAIN players :
        /\ players[id].status = "Sold"
        /\ players[id].price = Amt(15000000)
        /\ players[id].team_id # NoTeam
        /\ teams[players[id].team_id].budget = Amt(785000000)

\* C2: a sell for a player that is Sold or Unsold is rejected as already
\* processed and commits no change to any team or player, whatever team and
\* price (numeric or not) were submitted.
C2_SellNonAvailableRejected ==
    \A id \in DOMAIN players, team_name \in FormTeams, price_text \in PriceTexts :
        LET r == sell_player(teams, players, id, team_name, price_text)
        IN  players[id].status # "Available"
            => /\ r.flash = AlreadyProcessed
               /\ r.teams = teams
               /\ r.players = players

\* a sell for an Unsold player has just been rejected
C2_Witness ==
    /\ resp.flash = AlreadyProcessed
    /\ \E id \in DOMAIN players : players[id].status = "Unsold"

\* C3: a sell for an Available player that names no existing team, or a team
\* whose budget is below the price, commits no change to any team or player
\* and flashes a rejection.
C3_SellFailureNoMutation ==
    \A id \in DOMAIN players, team_name \in FormTeams, price_text \in NumberTexts :
        LET team == TeamByName(teams, team_name)
            r    == sell_player(teams, players, id, team_name, price_text)
        IN  players[id].status = "Available"
            => /\ team = NoTeam
                  => r.flash = InvalidTeam /\ r.teams = teams /\ r.players = players
               /\ (team # NoTeam /\ FLess(teams[team].budget, float(price_text)))
                  => r.flash = NotEnoughBudget /\ r.teams = teams /\ r.players = players

\* a sell has just been rejected for lack of budget and every player is still
\* Available with no team
C3_Witness ==
    /\ resp.flash = NotEnoughBudget
    /\ \A id \in DOMAIN players :
        players[id].status = "Available" /\ players[id].team_id = NoTeam

\* C4: every team's budget is >= 0 in every reachable state.
C4_BudgetNonNegative ==
    \A t \in DOMAIN teams : FGeq(teams[t].budget, Amt(0))

\* C5: a sell whose price is zero or negative changes no team and leaves the
\* player's status as it was.
C5_SellRejectsNonPositive ==
    \A id \in DOMAIN players, team_name \in FormTeams, price_text \in NumberTexts :
        LET r == sell_player(teams, players, id, team_name, price_text)
        IN  ~ FLess(Amt(0), float(price_text))
            => r.teams = teams /\ r.players[id].status = players[id].status

\* C6: a player's team reference is set if and only if the player is Sold.
C6_TeamIffSold ==
    \A id \in DOMAIN players :
        players[id].team_id # NoTeam <=> players[id].status = "Sold"

\* C7: no step takes an existing player from Sold to Unsold or from Unsold to
\* Sold.
C7_NoDirectSoldUnsold ==
    [][\A id \in DOMAIN players \cap DOMAIN players' :
          /\ ~ (players[id].status = "Sold" /\ players'[id].status = "Unsold")
          /\ ~ (players[id].status = "Unsold" /\ players'[id].status = "Sold")]_vars

\* C8: mark-unsold on an existing player leaves the player Unsold, whatever
\* the status was, and leaves every team as it was.
C8_UnsoldEffect ==
    \A id \in DOMAIN players :
        LET r == unsold_player(teams, players, id)
        IN  r.players[id].status = "Unsold" /\ r.teams = teams

\* a player that was Sold has just been marked Unsold
C8_Witness ==
    /\ resp.flash = <<"warning", "marked as Unsold">>
    /\ \E id \in DOMAIN players :
        players[id].status = "Unsold" /\ players[id].team_id # NoTeam

\* C9: a successful sell followed by undo on the same player restores every
\* team (the buyer's budget exactly) and leaves the player Available with
\* team and price unset, every other player as before the sell.
C9_SellUndoRoundTrip ==
    \A id \in DOMAIN players, team_name \in FormTeams, price_text \in NumberTexts :
        LET r1 == sell_player(teams, players, id, team_name, price_text)
            r2 == undo_player(r1.teams, r1.players, id)
        IN  r1.flash = Sold
            => r2.teams = teams /\ r2.players = ResetPlayer(players, id)

\* C10: undo on an Unsold player leaves the player Available and every team
\* as it was; mark-unsold on an Available player followed by undo leaves the
\* player Available and every team as it was.
C10_UndoUnsold ==
    \A id \in DOMAIN players :
        /\ players[id].status = "Unsold"
           => LET r == undo_player(teams, players, id)
              IN  r.players[id].status = "Available" /\ r.teams = teams
        /\ players[id].status = "Available"
           => LET u == unsold_player(teams, players, id)
                  r == undo_player(u.teams, u.players, id)
              IN  r.players[id].status = "Available" /\ r.teams = teams

\* the Unsold mark of a player that had been sold has just been undone: the
\* player is Available again and the buyer was not refunded
C10_Witness ==
    /\ resp.flash = <<"info", "Undid 'Unsold' status">>
    /\ \E id \in DOMAIN players :
        players[id].status = "Available" /\ players[id].price = None
    /\ \E t \in DOMAIN teams : teams[t].budget = Amt(785000000)

AlreadyAvailable == <<"warning", "Player is already Available.">>

\* C11: undo on an Available player commits no change to any player or team
\* and flashes "already Available".
C11_UndoAvailableNoOp ==
    \A id \in DOMAIN players :
        LET r == undo_player(teams, players, id)
        IN  players[id].status = "Available"
            => r.flash = AlreadyAvailable /\ r.teams = teams /\ r.players = players

\* an undo on an Available player has just been answered; a seeded player
\* that was never sold still has its default price
C11_Witness ==
    /\ resp.flash = AlreadyAvailable
    /\ \E id \in DOMAIN players :
        players[id].status = "Available" /\ players[id].price = Amt(0)

\* C12: delete on a Sold player adds the player's price to the owning team's
\* budget (the float addition of the budget column), changes no other team and
\* removes the player's row; delete on an Available or Unsold player removes
\* the row and leaves every team as it was.
C12_DeleteEffect ==
    \A id \in DOMAIN players :
        LET r == delete_player(teams, players, id)
            t == players[id].team_id
        IN  /\ r.players = DeleteRow(players, id)
            /\ players[id].status = "Sold"
               => /\ t \in DOMAIN teams
                  /\ r.teams = [teams EXCEPT ![t].budget = FAdd(@, players[id].price)]
            /\ players[id].status # "Sold" => r.teams = teams

\* a player sold for 15,000,000 has just been deleted: the row is gone and
\* every team is back at its initial budget
C12_Witness ==
    /\ resp.flash = <<"success", "removed, refunded">>
    /\ Cardinality(DOMAIN players) < NumSeedPlayers
    /\ \A t \in DOMAIN teams : teams[t].budget = DefaultBudget

\* C13: a sell, mark-unsold, undo or delete for a player id that has no row
\* (never created or deleted) ends in 404 and commits no change; undo right
\* after delete of the same id ends in 404, leaves the row deleted and
\* changes no team.
C13_MissingPlayerNotFound ==
    /\ \A id \in PlayerIds \ DOMAIN players :
        /\ \A team_name \in FormTeams, price_text \in PriceTexts :
              sell_player(teams, players, id, team_name, price_text)
                  = Result(teams, players, None, 404)
        /\ unsold_player(teams, players, id) = Result(teams, players, None, 404)
        /\ undo_player(teams, players, id) = Result(teams, players, None, 404)
        /\ delete_player(teams, players, id) = Result(teams, players, None, 404)
    /\ \A id \in DOMAIN players :
        LET d == delete_player(teams, players, id)
            u == undo_player(d.teams, d.players, id)
        IN  /\ u.code = 404
            /\ id \notin DOMAIN u.players
            /\ u.players = d.players
            /\ u.teams = d.teams

\* a request for player 1 has just ended in 404 after player 1 was deleted
C13_Witness ==
    /\ resp.code = 404
    /\ 1 \notin DOMAIN players

\* C14: a sell with a non-numeric price for an existing Available player
\* commits no change and ends with a flashed message and a redirect (302),
\* not an HTTP error status.
C14_MalformedPriceFlashed ==
    \A id \in DOMAIN players, team_name \in FormTeams, price_text \in PriceTexts \ NumberTexts :
        LET r == sell_player(teams, players, id, team_name, price_text)
        IN  players[id].status = "Available"
            => /\ r.teams = teams
               /\ r.players = players
               /\ r.code = 302
               /\ r.flash # None

\* the ids and names of the teams alone
TeamNames(T) == [t \in DOMAIN T |-> T[t].name]

Added == <<"success", "added successfully!">>

\* C15: no handler (and no later run of init_db) creates, deletes or renames
\* a team, and add-player, mark-unsold, the listing pages and a later init_db
\* leave every team budget as it was.
C15_TeamsFixed ==
    /\ \A id \in PlayerIds :
        /\ \A team_name \in FormTeams, price_text \in PriceTexts :
              TeamNames(sell_player(teams, players, id, team_name, price_text).teams)
                  = TeamNames(teams)
        /\ TeamNames(undo_player(teams, players, id).teams) = TeamNames(teams)
        /\ TeamNames(delete_player(teams, players, id).teams) = TeamNames(teams)
        /\ unsold_player(teams, players, id).teams = teams
    /\ \A method \in {"GET", "POST"}, credits \in CreditFields :
          add_player(teams, players, method, "New Player", "Bowler",
                     "Uncapped Bowler", "50 Lakhs", credits).teams = teams
    /\ index(teams, players).teams = teams
    /\ init_db(teams, players).teams = teams

\* a Sold player has just been marked Unsold: the 8 teams are there and the
\* buyer's budget is still the debited one
C15_Witness ==
    /\ resp.flash = <<"warning", "marked as Unsold">>
    /\ TeamNames(teams) = [t \in 1 .. 8 |-> default_teams[t]]
    /\ \E id \in DOMAIN players :
        /\ players[id].status = "Unsold"
        /\ players[id].price = Amt(15000000)
        /\ players[id].team_id # NoTeam
        /\ teams[players[id].team_id].budget = Amt(785000000)

\* C16: a successful add-player request inserts exactly one new row, which is
\* Available with no team, and changes no existing player and no team.
C16_AddEffect ==
    \A credits \in CreditFields :
        LET r == add_player(teams, players, "POST", "New Player", "Bowler",
                            "Uncapped Bowler", "50 Lakhs", credits)
        IN  r.flash = Added
            => /\ r.teams = teams
               /\ DOMAIN players \subseteq DOMAIN r.players
               /\ Cardinality(DOMAIN r.players) = Cardinality(DOMAIN players) + 1
               /\ \A id \in DOMAIN players : r.players[id] = players[id]
               /\ \A id \in DOMAIN r.players \ DOMAIN players :
                     /\ r.players[id].status = "Available"
                     /\ r.players[id].team_id = NoTeam
                     /\ r.players[id].name = "New Player"

\* a player has just been added to a store in which an earlier player is Sold
C16_Witness ==
    /\ resp.flash = Added
    /\ \E id \in DOMAIN players : players[id].status = "Sold"
    /\ \E id \in DOMAIN players :
        players[id].name = "New Player" /\ players[id].status = "Available"

\* the tables init_db creates in an empty store
Seeded == init_db(EmptyTable, EmptyTable)

\* C17 as stated: init_db on the empty store creates the 8 default teams at
\* 800,000,000 and the player list, and a run of init_db in any later state
\* adds no team and no player and changes no budget.
C17_SeedOnce ==
    /\ TeamNames(Seeded.teams) = [t \in 1 .. 8 |-> default_teams[t]]
    /\ \A t \in DOMAIN Seeded.teams : Seeded.teams[t].budget = Amt(800000000)
    /\ Cardinality(DOMAIN Seeded.players) = NumSeedPlayers
    /\ init_db(teams, players).teams = teams
    /\ init_db(teams, players).players = players

\* C17 amended: init_db on the empty store creates the 8 default teams at
\* 800,000,000 and the player list; a later run changes no team, and changes
\* no player as long as at least one player row exists; when every player
\* has been deleted it loads the player list again.
C17_SeedPerTable ==
    /\ TeamNames(Seeded.teams) = [t \in 1 .. 8 |-> default_teams[t]]
    /\ \A t \in DOMAIN Seeded.teams : Seeded.teams[t].budget = Amt(800000000)
    /\ Cardinality(DOMAIN Seeded.players) = NumSeedPlayers
    /\ init_db(teams, players).teams = teams
    /\ DOMAIN players # {} => init_db(teams, players).players = players
    /\ DOMAIN players = {} => init_db(teams, players).players = Seeded.players

\* init_db has just run again in a store that holds a Sold player and a
\* debited team: both are as the sale left them
C17_Witness ==
    /\ nreq > 0
    /\ resp.code = 0
    /\ \E id \in DOMAIN players :
        /\ players[id].status = "Sold"
        /\ players[id].team_id # NoTeam
        /\ teams[players[id].team_id].budget = Amt(785000000)

\* client c commits in this step (its request ends with a redirect) and the
\* committed tables then hold both of its writes: the team's budget as the
\* session computed it and the player's row as the session left it
CommitsBoth(c) ==
    LET s == sess[c]
    IN  /\ s.pc = "commit"
        /\ sess'[c] = Idle
        /\ resp'.code = 302
        /\ s.team # NoTeam
        /\ CASE s.op = "sell" ->
                  /\ teams'[s.team].budget = FSub(s.budget, s.price)
                  /\ s.id \in DOMAIN players'
                  /\ players'[s.id].status = "Sold"
                  /\ players'[s.id].team_id = s.team
                  /\ players'[s.id].price = s.price
             [] s.op = "undo" ->
                  /\ teams'[s.team].budget = FAdd(s.budget, s.old_price)
                  /\ s.id \in DOMAIN players'
                  /\ players'[s.id].status = "Available"
                  /\ players'[s.id].team_id = NoTeam
                  /\ players'[s.id].price = None
             [] s.op = "delete" ->
                  /\ teams'[s.team].budget = FAdd(s.budget, s.old_price)
                  /\ s.id \notin DOMAIN players'
             [] OTHER -> FALSE

\* C18: under every interleaving, a step that changes a team's budget is the
\* commit of one sell, undo or delete request and the same step writes that
\* request's player row; and a step that makes a player Sold, or ends a
\* request with a sale or a refund, writes the team's budget in the same step.
C18_AtomicCommit ==
    [][/\ \A t \in DOMAIN teams :
              teams'[t].budget # teams[t].budget
              => \E c \in Clients : sess[c].team = t /\ CommitsBoth(c)
       /\ \A id \in DOMAIN players \cap DOMAIN players' :
              (players'[id].status = "Sold" /\ players'[id] # players[id])
              => \E c \in Clients : sess[c].id = id /\ CommitsBoth(c)
       /\ \A c \in Clients :
              (/\ sess[c].pc = "commit"
               /\ sess'[c] = Idle
               /\ sess[c].team # NoTeam
               /\ resp'.code = 302)
              => CommitsBoth(c)]_vars

\* a sale has been committed while another request was in service: the
\* player is Sold and the buyer is debited
C18_Witness ==
    /\ resp.flash = Sold
    /\ \E c \in Clients : sess[c].pc # "idle"
    /\ \E id \in DOMAIN players :
        /\ players[id].status = "Sold"
        /\ players[id].team_id # NoTeam
        /\ teams[players[id].team_id].budget = Amt(785000000)

\* the sell request of session s runs from where it is to its end
FinishSell(T, P, s) ==
    IF s.pc = "team"
    THEN LET o == sell_load_team(T, P, s)
         IN  IF o.done THEN o ELSE sell_commit(o.teams, o.players, o.s)
    ELSE sell_commit(T, P, s)

\* the team a sell session names and the budget it reads (has read) in T
SellTeamOf(T, s) == IF s.pc = "team" THEN TeamByName(T, s.team_name) ELSE s.team

BudgetRead(T, s) == IF s.pc = "team" THEN T[TeamByName(T, s.team_name)].budget ELSE s.budget

\* C19: when two sell requests for the same player, naming different teams
\* with budgets that cover the prices, have both loaded the player as
\* Available and neither has committed, both commit successfully: each team's
\* budget is written as the budget that request read minus its price, and the
\* player is Sold to the team of the later commit only.
C19_SellRaceSamePlayer ==
    \A c1, c2 \in Clients :
        LET s1 == sess[c1]
            s2 == sess[c2]
            t1 == SellTeamOf(teams, s1)
            t2 == SellTeamOf(teams, s2)
            r1 == FinishSell(teams, players, s1)
            r2 == FinishSell(r1.teams, r1.players, s2)
        IN  (/\ c1 # c2
             /\ s1.op = "sell" /\ s2.op = "sell"
             /\ s1.id = s2.id
             /\ s1.id \in DOMAIN players
             /\ t1 # NoTeam /\ t2 # NoTeam /\ t1 # t2
             /\ FGeq(BudgetRead(teams, s1), s1.price)
             /\ FGeq(BudgetRead(teams, s2), s2.price))
            => /\ r1.flash = Sold
               /\ r2.flash = Sold
               /\ r2.teams[t1].budget = FSub(BudgetRead(teams, s1), s1.price)
               /\ r2.teams[t2].budget = FSub(BudgetRead(teams, s2), s2.price)
               /\ r2.players[s1.id].status = "Sold"
               /\ r2.players[s1.id].team_id = t2

\* only two requests were ever made and both are finished: two teams are
\* debited by 15,000,000 and exactly one player is Sold
C19_Witness ==
    /\ nreq = 2
    /\ \A c \in Clients : sess[c] = Idle
    /\ teams[1].budget = Amt(785000000)
    /\ teams[2].budget = Amt(785000000)
    /\ Cardinality({id \in DOMAIN players : players[id].status = "Sold"}) = 1
    /\ \A id \in DOMAIN players : players[id].status \in {"Sold", "Available"}

\* C20: when two sell requests for different players to the same team have
\* both read the team's committed budget and neither has committed, both
\* commit successfully, both players are Sold to the team, and the budget is
\* the one the later commit wrote: the committed budget minus the later
\* request's price only, not minus both prices.
C20_SellRaceSameTeam ==
    \A c1, c2 \in Clients :
        LET s1 == sess[c1]
            s2 == sess[c2]
            t  == s1.team
            r1 == sell_commit(teams, players, s1)
            r2 == sell_commit(r1.teams, r1.players, s2)
        IN  (/\ c1 # c2
             /\ s1.op = "sell" /\ s2.op = "sell"
             /\ s1.pc = "commit" /\ s2.pc = "commit"
             /\ s1.id # s2.id
             /\ s1.id \in DOMAIN players /\ s2.id \in DOMAIN players
             /\ s2.team = t
             /\ s1.budget = teams[t].budget /\ s2.budget = teams[t].budget)
            => /\ r1.flash = Sold
               /\ r2.flash = Sold
               /\ r2.players[s1.id].status = "Sold" /\ r2.players[s1.id].team_id = t
               /\ r2.players[s2.id].status = "Sold" /\ r2.players[s2.id].team_id = t
               /\ r2.teams[t].budget = FSub(teams[t].budget, s2.price)
               /\ r2.teams[t].budget # FSub(FSub(teams[t].budget, s1.price), s2.price)

\* only two requests were ever made and both are finished: two players are
\* Sold to team 1 for 15,000,000 each and its budget is 785,000,000
C20_Witness ==
    /\ nreq = 2
    /\ \A c \in Clients : sess[c] = Idle
    /\ teams[1].budget = Amt(785000000)
    /\ Cardinality({id \in DOMAIN players :
                       /\ players[id].status = "Sold"
                       /\ players[id].team_id = 1
                       /\ players[id].price = Amt(15000000)}) = 2

\* the team table without the row of team t
WithoutTeam(T, t) == [k \in DOMAIN T \ {t} |-> T[k]]

\* C22: undo on a Sold player resets the player to Available with no team and
\* no price; when the row of the owning team is missing from the team table
\* the undo changes no budget and still resets the player.
C22_UndoSoldResets ==
    [](\A id \in DOMAIN players :
           players[id].status = "Sold"
           => LET r    == undo_player(teams, players, id)
                  gone == WithoutTeam(teams, players[id].team_id)
                  d    == undo_player(gone, players, id)
              IN  /\ r.players = ResetPlayer(players, id)
                  /\ r.code = 302
                  /\ d.players = ResetPlayer(players, id)
                  /\ d.teams = gone
                  /\ d.code = 302)

\* the sale of a player has just been undone, and another player is Sold
C22_Witness ==
    /\ resp.flash = <<"info", "Undid sale">>
    /\ \E id \in DOMAIN players :
        /\ players[id].status = "Available"
        /\ players[id].price = None
        /\ players[id].team_id = NoTeam
    /\ \E id \in DOMAIN players : players[id].status = "Sold"

\* the exact sum of the prices of the players ids of table P
RECURSIVE SumPrices(_, _)
SumPrices(P, ids) ==
    IF ids = {} THEN Amt(0)
    ELSE LET id == CHOOSE i \in ids : TRUE
         IN  ExactAdd(P[id].price, SumPrices(P, ids \ {id}))

\* the players recorded as Sold to team t
SoldTo(P, t) == {id \in DOMAIN P : P[id].status = "Sold" /\ P[id].team_id = t}

\* C23: in every reachable state, for every team, the budget plus the prices
\* of the players that are Sold to the team is the initial budget 800,000,000.
C23_MoneyConserved ==
    \A t \in DOMAIN teams :
        ExactAdd(teams[t].budget, SumPrices(players, SoldTo(players, t))) = DefaultBudget

\* C24: a sell of an Available player to an existing team at a price equal to
\* the team's budget succeeds and leaves the budget 0; at a price above the
\* budget it is rejected with "Not enough budget." and changes nothing.
C24_SellAtBudget ==
    [](\A id \in DOMAIN players, team_name \in FormTeams, price_text \in NumberTexts :
           LET team  == TeamByName(teams, team_name)
               price == float(price_text)
               r     == sell_player(teams, players, id, team_name, price_text)
           IN  (players[id].status = "Available" /\ team # NoTeam)
               => /\ price = teams[team].budget
                       => /\ r.flash = Sold
                          /\ r.teams[team].budget = Amt(0)
                          /\ r.players[id].status = "Sold"
                  /\ FLess(teams[team].budget, price)
                       => /\ r.flash = NotEnoughBudget
                          /\ r.teams = teams
                          /\ r.players = players)

\* a player has just been sold for 800,000,001, the whole budget of the team
C24_Witness ==
    /\ resp.flash = Sold
    /\ \E id \in DOMAIN players :
        /\ players[id].status = "Sold"
        /\ players[id].price = Amt(800000001)
        /\ teams[players[id].team_id].budget = Amt(0)

\* C25: sell reports the first rejection that applies, in the order: player
\* not found (404), player not Available, unknown team, budget below the
\* price; the later conditions do not change the report of an earlier one.
\* (The team and budget checks are stated for the numeric prices: see C14.)
C25_SellRejectionOrder ==
    [](\A id \in PlayerIds, team_name \in FormTeams, price_text \in PriceTexts :
           LET r    == sell_player(teams, players, id, team_name, price_text)
               team == TeamByName(teams, team_name)
           IN  IF id \notin DOMAIN players THEN r.code = 404 /\ r.flash = None
               ELSE IF players[id].status # "Available" THEN r.flash = AlreadyProcessed
               ELSE price_text \in NumberTexts
                    => IF team = NoTeam THEN r.flash = InvalidTeam
                       ELSE IF FLess(teams[team].budget, float(price_text))
                       THEN r.flash = NotEnoughBudget
                       ELSE r.flash = Sold)

\* a sell on a Sold player has just been rejected as already processed while
\* the store holds a Sold and an Available player
C25_Witness ==
    /\ resp.flash = AlreadyProcessed
    /\ \E id \in DOMAIN players : players[id].status = "Sold"
    /\ \E id \in DOMAIN players : players[id].status = "Available"

\* a player that is Sold in the result r of a request was Sold, with the same
\* team and price, before the request
StaysSold(r, k) ==
    /\ k \in DOMAIN players
    /\ players[k].status = "Sold"
    /\ r.players[k].team_id = players[k].team_id
    /\ r.players[k].price = players[k].price

\* C26: every Sold player references an existing team and carries the price
\* of the sell request that made it Sold: a sell that makes a player Sold
\* records its own team and price, and every request leaves the team and the
\* price of a player that stays Sold as they were.
C26_SoldHasTeamAndPrice ==
    [](/\ \A id \in DOMAIN players :
             players[id].status = "Sold"
             => players[id].team_id \in DOMAIN teams /\ players[id].price # None
       /\ \A id \in PlayerIds :
           /\ \A team_name \in FormTeams, price_text \in PriceTexts :
                 LET r == sell_player(teams, players, id, team_name, price_text)
                 IN  \A k \in DOMAIN r.players :
                         r.players[k].status = "Sold"
                         => \/ StaysSold(r, k)
                            \/ /\ k = id
                               /\ price_text \in NumberTexts
                               /\ r.players[k].price = float(price_text)
                               /\ r.players[k].team_id = TeamByName(teams, team_name)
                               /\ r.players[k].team_id \in DOMAIN r.teams
           /\ \A r \in {unsold_player(teams, players, id), undo_player(teams, players, id),
                        delete_player(teams, players, id)} :
                 \A k \in DOMAIN r.players : r.players[k].status = "Sold" => StaysSold(r, k)
       /\ \A method \in {"GET", "POST"}, credits \in CreditFields :
             LET r == add_player(teams, players, method, "New Player", "Bowler",
                                 "Uncapped Bowler", "50 Lakhs", credits)
             IN  \A k \in DOMAIN r.players : r.players[k].status = "Sold" => StaysSold(r, k)
       /\ \A r \in {index(teams, players), init_db(teams, players)} :
             \A k \in DOMAIN r.players : r.players[k].status = "Sold" => StaysSold(r, k))

\* two players are Sold to different teams at different prices
C26_Witness ==
    \E i, j \in DOMAIN players :
        /\ players[i].status = "Sold" /\ players[j].status = "Sold"
        /\ players[i].team_id # players[j].team_id
        /\ players[i].price = Amt(15000000)
        /\ players[j].price = Amt(-1)

\* player k is Sold in the result r of a request and was not Sold before it
NewlySold(r, k) ==
    /\ r.players[k].status = "Sold"
    /\ ~ (k \in DOMAIN players /\ players[k].status = "Sold")

\* C27: a player becomes Sold only by a successful sell request for that
\* player, made while the player is Available; mark-unsold, undo, delete and
\* add make no player Sold.
C27_SoldOnlyBySell ==
    [](/\ \A id \in PlayerIds :
           /\ \A team_name \in FormTeams, price_text \in PriceTexts :
                 LET r == sell_player(teams, players, id, team_name, price_text)
                 IN  \A k \in DOMAIN r.players :
                         NewlySold(r, k)
                         => /\ k = id
                            /\ id \in DOMAIN players
                            /\ players[id].status = "Available"
                            /\ r.flash = Sold
           /\ \A r \in {unsold_player(teams, players, id), undo_player(teams, players, id),
                        delete_player(teams, players, id)} :
                 \A k \in DOMAIN r.players : ~ NewlySold(r, k)
       /\ \A method \in {"GET", "POST"}, credits \in CreditFields :
             LET r == add_player(teams, players, method, "New Player", "Bowler",
                                 "Uncapped Bowler", "50 Lakhs", credits)
             IN  \A k \in DOMAIN r.players : ~ NewlySold(r, k))

\* the Unsold mark of a player that had been Sold has just been undone
C27_Witness ==
    /\ resp.flash = <<"info", "Undid 'Unsold' status">>
    /\ \E t \in DOMAIN teams : teams[t].budget = Amt(785000000)
    /\ \A id \in DOMAIN players : players[id].status = "Available"

\* the result r leaves every player but id, and the descriptive columns of id
PlayerFrame(r, id) ==
    \/ r.players = players
    \/ /\ id \in DOMAIN players
       /\ id \in DOMAIN r.players
       /\ r.players = [players EXCEPT ![id].status = r.players[id].status,
                                      ![id].team_id = r.players[id].team_id,
                                      ![id].price = r.players[id].price]

\* the result r changes nothing of the teams but the budget of one team of only
TeamFrame(r, only) ==
    \/ r.teams = teams
    \/ \E t \in only \cap DOMAIN teams :
          /\ t \in DOMAIN r.teams
          /\ r.teams = [teams EXCEPT ![t].budget = r.teams[t].budget]

\* C28: a sell, mark-unsold, undo or delete request for player id changes no
\* other player and none of the player's name, role, set_name, base_price and
\* credits (delete removes the row of id and nothing else), and changes the
\* budget of at most one team: the one named in the sell, or the one the
\* player belonged to.
C28_PerPlayerFrame ==
    [](\A id \in PlayerIds :
           LET owner == IF id \in DOMAIN players THEN {players[id].team_id} ELSE {}
           IN  /\ \A team_name \in FormTeams, price_text \in PriceTexts :
                     \A r \in {sell_player(teams, players, id, team_name, price_text)} :
                         PlayerFrame(r, id) /\ TeamFrame(r, {TeamByName(teams, team_name)})
               /\ \A r \in {unsold_player(teams, players, id)} :
                     PlayerFrame(r, id) /\ TeamFrame(r, {})
               /\ \A r \in {undo_player(teams, players, id)} :
                     PlayerFrame(r, id) /\ TeamFrame(r, owner)
               /\ \A r \in {delete_player(teams, players, id)} :
                     /\ r.players = IF id \in DOMAIN players THEN DeleteRow(players, id)
                                                             ELSE players
                     /\ TeamFrame(r, owner))

\* a Sold player has just been deleted and refunded while another player is
\* still Sold to another team
C28_Witness ==
    /\ resp.flash = <<"success", "removed, refunded">>
    /\ \E id \in DOMAIN players :
        /\ players[id].status = "Sold"
        /\ teams[players[id].team_id].budget # DefaultBudget
    /\ \E t \in DOMAIN teams : teams[t].budget = DefaultBudget

\* the characters of a text
Chars(s) == {SubSeq(s, i, i) : i \in 1 .. Len(s)}

DigitChars == {Digit(d) : d \in 0 .. 9}

\* s is "INR ", digits, ".", two digits and the unit
IsUnitText(s, unit) ==
    LET n == Len(s) - Len(unit) - 4
        m == SubSeq(s, 5, 4 + n)
    IN  /\ n >= 4
        /\ SubSeq(s, 1, 4) = "INR "
        /\ SubSeq(s, 5 + n, Len(s)) = unit
        /\ SubSeq(m, n - 2, n - 2) = "."
        /\ Chars(SubSeq(m, 1, n - 3)) \subseteq DigitChars
        /\ Chars(SubSeq(m, n - 1, n)) \subseteq DigitChars

\* s is "INR " and a run of digits, commas and a sign: no unit, no "."
IsGroupedText(s) ==
    /\ SubSeq(s, 1, 4) = "INR "
    /\ Chars(SubSeq(s, 5, Len(s))) \subseteq DigitChars \cup {",", "-"}

\* C21: format_inr picks the band from the amount alone: a crore text for
\* amounts >= 10,000,000, a lakh text for amounts >= 100,000 and below
\* 10,000,000, a grouped integer only below 100,000; 25000000 gives
\* "INR 2.50 Cr", 150000 "INR 1.50 L", 5000 "INR 5,000", and 123456 and
\* 1234567 give lakh texts.
C21_FormatBands ==
    (shown # NotShown /\ value # None)
    => /\ ~ FLess(value, Amt(Crore)) => IsUnitText(shown, " Cr")
       /\ (~ FLess(value, Amt(Lakh)) /\ FLess(value, Amt(Crore)))
              => IsUnitText(shown, " L")
       /\ FLess(value, Amt(Lakh)) => IsGroupedText(shown)
       /\ value = Amt(25000000) => shown = "INR 2.50 Cr"
       /\ value = Amt(150000) => shown = "INR 1.50 L"
       /\ value = Amt(5000) => shown = "INR 5,000"
       /\ value = Amt(123456) => shown = "INR 1.23 L"
       /\ value = Amt(1234567) => shown = "INR 12.35 L"

\* 1234567 has been rendered as a lakh text
C21_Witness == value = Amt(1234567) /\ shown = "INR 12.35 L"

\* the integer part of an amount (towards zero), as sign and magnitude
IntegerPart(x) ==
    IF x[1] < 0 THEN [neg |-> FNeg(x)[1] # 0, mag |-> FNeg(x)[1]]
    ELSE [neg |-> FALSE, mag |-> x[1]]

\* the decimal text of an integer with one comma before its last three
\* digits when it has more than three digits
OneComma(n) ==
    LET d == str_nat(n.mag)
    IN  (IF n.neg THEN "-" ELSE "")
        \o (IF Len(d) > 3
            THEN SubSeq(d, 1, Len(d) - 3) \o "," \o SubSeq(d, Len(d) - 2, Len(d))
            ELSE d)

\* C29: for every amount below 100,000, zero and negative amounts included,
\* format_inr gives "INR " and the integer part of the amount in decimal, with
\* one comma before the last three digits when it has more than three digits
\* and no comma otherwise.
C29_GroupedBelowLakh ==
    (shown # NotShown /\ value # None /\ FLess(value, Amt(Lakh)))
    => shown = "INR " \o OneComma(IntegerPart(value))

====
